---- MODULE Spec2Model ----
(***************************************************************************)
(* Model of two parts of evergreen-universe-rs:                            *)
(*                                                                         *)
(*  - the open-ils.rs-store worker (eg-svc-rs-store/app.rs): a worker      *)
(*    owns one database connection and rolls an open transaction back     *)
(*    whenever its session ends;                                           *)
(*  - the SIP2 gateway session (sip2-server/src/session.rs): the receive   *)
(*    loop, the request dispatch and the login / status handlers;          *)
(*  - the startup of the store service (eg-svc-rs-store/app.rs): the      *)
(*    list of methods register_methods builds from the IDL;               *)
(*  - the call dispatch of the public service (eg-svc-rspub/methods.rs):  *)
(*    the declared parameter counts.                                       *)
(*                                                                         *)
(* Rust's Option<T> is a sequence of length 0 (None) or 1 (Some(x)).       *)
(* Rust's Result is a record whose field res is "Ok" or "Err".             *)
(***************************************************************************)
EXTENDS Naturals, Sequences, FiniteSets

\* ------------------------------------------------------------------------
\* Bounds of the model
\* ------------------------------------------------------------------------

\* Number of worker threads of the store service.
NumWorkers == 2

\* Number of client sessions the store workers serve in one run.
MaxSessions == 3

\* Number of SIP requests one gateway session receives in one run.
MaxRecv == 3

\* The same number in the runs that check termination.
MaxLiveRecv == 2

\* The same number in the runs that follow a session through two gateway
\* logins, each followed by a gated request.
MaxLongRecv == 4

Workers == 1..NumWorkers

None == <<>>

Some(x) == <<x>>

is_some(o) == Len(o) = 1

is_none(o) == Len(o) = 0

unwrap(o) == o[1]

VARIABLES
    \* ---- store worker pool ----
    wstate,        \* position of each worker in the runtime's lifecycle
    database,      \* RsStoreWorker.database: Option<DatabaseConnection>
    wsession,      \* id of the session a worker is serving (0: none)
    xact_session,  \* id of the session that began the open transaction (0: none)
    next_session,  \* next fresh session id
    wlast,         \* what the last hook or call on a worker did
    app_env,       \* the application's environment, shared by all workers
    app_methods,   \* the registry of published methods, shared by all workers
    absorbed,      \* RsStoreWorker.env and .methods of each worker
    wconn,         \* the connection each worker's worker_start built
    \* ---- gateway session ----
    pc,            \* position of Session::start
    shutdown,      \* the shared shutdown flag
    sc_status_before_login, \* sip_config.sc_status_before_login()
    client_requests, \* number of requests the client sends in the session
    account,       \* Session.account: Option<SipAccount>
    authtoken,     \* editor.authtoken(): Option<token>
    sip_req,       \* the request being processed: Option<message>
    sip_resp,      \* the response to send: Option<message>
    sent,          \* the responses sent to the SIP client, in order
    nrecv,         \* number of requests received
    connected,     \* whether the client connection is still open
    exit_res,      \* what Session::start returned: Option<result>
    slast,         \* what the last handle_sip_request did
    lookups,       \* number of user searches of get_ils_user_id, by ILS username
    \* ---- store service startup ----
    idl,           \* RsStoreApplication.idl: the classes of the parsed IDL
    store_METHODS, \* names of the store's methods::METHODS definitions
    registered,    \* what each run of register_methods produced
    \* ---- public service worker ----
    pub_calls,     \* number of calls the worker was handed
    pub_invoked,   \* number of handler invocations
    pub_last,      \* what the dispatch of the last call did
    pub_state      \* whether the worker is listening for calls

store_vars == <<wstate, database, wsession, xact_session, next_session, wlast,
                app_env, app_methods, absorbed, wconn>>

\* What stays as it is over a gateway session: the configuration and the
\* client's script.
sip_fixed == <<sc_status_before_login, client_requests>>

sip_vars == <<pc, shutdown, sip_fixed, account, authtoken,
              sip_req, sip_resp, sent, nrecv, connected, exit_res, slast,
              lookups>>

reg_vars == <<idl, store_METHODS, registered>>

pub_vars == <<pub_calls, pub_invoked, pub_last, pub_state>>

vars == <<store_vars, sip_vars, reg_vars, pub_vars>>

\* ------------------------------------------------------------------------
\* DatabaseConnection (eg::db): the in-transaction flag and the three
\* transaction operations.  Each returns the connection afterwards and the
\* result.
\* ------------------------------------------------------------------------

new_connection == [in_transaction |-> FALSE]

in_transaction(db) == db.in_transaction

\* A mutant: begin that lets transactions nest.
xact_begin_nested(db) ==
    [db |-> [db EXCEPT !.in_transaction = TRUE], res |-> "Ok"]

\* begin: fails if a transaction is already open on this connection.
xact_begin(db) ==
    IF db.in_transaction
    THEN [db |-> db, res |-> "Err"]
    ELSE [db |-> [db EXCEPT !.in_transaction = TRUE], res |-> "Ok"]

\* commit: fails if no transaction is open.
xact_commit(db) ==
    IF ~db.in_transaction
    THEN [db |-> db, res |-> "Err"]
    ELSE [db |-> [db EXCEPT !.in_transaction = FALSE], res |-> "Ok"]

\* A mutant: rollback that succeeds when no transaction is open.
xact_rollback_lenient(db) ==
    [db |-> [db EXCEPT !.in_transaction = FALSE], res |-> "Ok"]

\* rollback: fails if no transaction is open.
xact_rollback(db) ==
    IF ~db.in_transaction
    THEN [db |-> db, res |-> "Err"]
    ELSE [db |-> [db EXCEPT !.in_transaction = FALSE], res |-> "Ok"]

\* ------------------------------------------------------------------------
\* RsStoreWorker hooks.  Each takes the worker's database field and returns
\* the field afterwards and the hook's result.
\* ------------------------------------------------------------------------

\* RsStoreWorker::new
RsStoreWorker_new == None

\* worker_start: build a connection and connect; connect_ok is db.connect().
\* A mutant: worker_start that keeps the connection object whatever connect
\* returned.
worker_start_ignores_connect(connect_ok) ==
    [database |-> Some(new_connection), res |-> "Ok"]

worker_start(connect_ok) ==
    IF connect_ok
    THEN [database |-> Some(new_connection), res |-> "Ok"]
    ELSE [database |-> None, res |-> "Err"]

\* worker_end: the connection cleans itself up on Drop; nothing is done here.
worker_end(dbo) == [database |-> dbo, res |-> "Ok"]

\* A mutant: end_session that forgets the rollback.
end_session_no_rollback(dbo) == [database |-> dbo, res |-> "Ok"]

\* end_session: roll back an active transaction.
end_session(dbo) ==
    IF is_some(dbo) /\ in_transaction(unwrap(dbo))
    THEN LET r == xact_rollback(unwrap(dbo))
         IN  [database |-> Some(r.db), res |-> r.res]
    ELSE [database |-> dbo, res |-> "Ok"]

\* A mutant: keepalive_timeout that does nothing, as in a worker with no
\* connection of its own.
keepalive_timeout_noop(dbo) == [database |-> dbo, res |-> "Ok"]

\* keepalive_timeout: the same as end_session.
keepalive_timeout(dbo) == end_session(dbo)

\* A mutant: api_call_error that only logs the failure.
api_call_error_log_only(dbo) == [database |-> dbo, res |-> "Ok"]

\* api_call_error: log, then end_session().ok(), its error ignored.
api_call_error(dbo) == [database |-> end_session(dbo).database, res |-> "Ok"]

\* ------------------------------------------------------------------------
\* The published methods of the store service and their handlers.
\* ------------------------------------------------------------------------

XactApis == {"transaction.begin", "transaction.rollback", "transaction.commit"}

\* One derived CRUD method stands for the whole derived surface.
DirectApi == "open-ils.rs-store.direct.actor.user.retrieve"

Apis == XactApis \cup {DirectApi}

\* The handler of a transaction method, run on the worker's connection.
\* worker.database() panics on None; a listening worker has Some.
manage_xact(api, db) ==
    IF api = "transaction.begin" THEN xact_begin(db)
    ELSE IF api = "transaction.rollback" THEN xact_rollback(db)
    ELSE xact_commit(db)

\* The handler of a method: handler_ok is the outcome of a CRUD handler's
\* own work, which does not touch the transaction flag.
handler(api, db, handler_ok) ==
    IF api \in XactApis THEN manage_xact(api, db)
    ELSE [db |-> db, res |-> IF handler_ok THEN "Ok" ELSE "Err"]

\* The record of a hook or call: pre_xact tells whether a transaction was
\* open when it began; prev_xact, on the start of a session, whether the
\* session before it on this worker ended with a transaction open.
\* RsStoreEnv::new: the environment holds a reference to the shared IDL.
RsStoreEnv_new(idl_) == [type |-> "RsStoreEnv", idl |-> idl_]

\* Application::env: a new environment around the application's one IDL
\* reference.
Application_env == RsStoreEnv_new("idl")

\* The registry the server builds from what register_methods returned: the
\* definition published under each name.
Server_methods == [name \in Apis |-> [handler |-> name]]

\* The env and methods fields as RsStoreWorker::new leaves them.
RsStoreWorker_new_env == [env |-> None, methods |-> None]

\* A mutant: absorb_env that keeps an environment of its own, around an IDL
\* it parsed again.
absorb_env_reparse(fields, methods_, env_) ==
    IF env_.type # "RsStoreEnv"
    THEN [fields |-> fields, res |-> "Err"]
    ELSE [fields |-> [env |-> Some(RsStoreEnv_new("idl-reparsed")),
                      methods |-> Some(methods_)],
          res |-> "Ok"]

\* absorb_env: downcast the environment handed in, keep a clone of it (the
\* same IDL reference) and the reference to the registry.  The client,
\* config and host settings kept alongside are left out.
absorb_env(fields, methods_, env_) ==
    IF env_.type # "RsStoreEnv"
    THEN [fields |-> fields, res |-> "Err"]
    ELSE [fields |-> [env |-> Some(env_), methods |-> Some(methods_)],
          res |-> "Ok"]

\* opensrf::util::thread_id: the id of the thread a worker runs in, which
\* worker_start writes into the application name of the connection.
thread_id(w) == w

\* No connection built yet.
NoConnection == [thread |-> 0, connect |-> "none"]

\* after_failure, on a transaction.commit, tells whether the call before it
\* in the session failed with a transaction open.
Op(op, api, pre_xact, prev_xact, res) ==
    [op |-> op, api |-> api, pre_xact |-> pre_xact, prev_xact |-> prev_xact,
     res |-> res, after_failure |-> FALSE]

NoOp == Op("none", "none", FALSE, FALSE, "Ok")

SessionEndHooks == {"end_session", "keepalive_timeout"}

has_xact(w) == is_some(database[w]) /\ in_transaction(unwrap(database[w]))

\* The worker thread calls worker_start before it goes into its listen state.
\* The runtime hands a new worker the application's environment and the
\* registry, before it calls worker_start.
AbsorbEnv(w) ==
    /\ wstate[w] = "new"
    /\ is_none(absorbed[w].env)
    /\ LET r == absorb_env(absorbed[w], app_methods, app_env)
       IN  /\ absorbed' = [absorbed EXCEPT ![w] = r.fields]
           /\ wstate' = [wstate EXCEPT ![w] = IF r.res = "Ok" THEN @ ELSE "failed"]
           /\ wlast' = [wlast EXCEPT ![w] =
                  Op("absorb_env", "none", FALSE, FALSE, r.res)]
    /\ UNCHANGED <<database, wsession, xact_session, next_session>>
    /\ UNCHANGED <<app_env, app_methods, wconn>>
    /\ UNCHANGED <<sip_vars, reg_vars, pub_vars>>

WorkerStart(w) ==
    /\ wstate[w] = "new"
    /\ is_some(absorbed[w].env)
    /\ \E connect_ok \in BOOLEAN :
         LET r == worker_start(connect_ok)
         IN  /\ database' = [database EXCEPT ![w] = r.database]
             /\ wstate' = [wstate EXCEPT ![w] = IF r.res = "Ok" THEN "idle" ELSE "failed"]
             /\ wlast' = [wlast EXCEPT ![w] =
                    Op("worker_start", "none", FALSE, FALSE, r.res)]
             /\ wconn' = [wconn EXCEPT ![w] =
                    [thread |-> IF is_some(r.database) THEN thread_id(w) ELSE 0,
                     connect |-> IF connect_ok THEN "ok" ELSE "failed"]]
    /\ UNCHANGED <<wsession, xact_session, next_session>>
    /\ UNCHANGED <<app_env, app_methods, absorbed>>
    /\ UNCHANGED <<sip_vars, reg_vars, pub_vars>>

\* A caller's first request reaches an idle worker: a new session starts.
StartSession(w) ==
    /\ wstate[w] = "idle"
    /\ next_session <= MaxSessions
    /\ wstate' = [wstate EXCEPT ![w] = "serving"]
    /\ wsession' = [wsession EXCEPT ![w] = next_session]
    /\ next_session' = next_session + 1
    /\ wlast' = [wlast EXCEPT ![w] =
           Op("start_session", "none", has_xact(w),
              wlast[w].pre_xact /\ wlast[w].op \in SessionEndHooks,
              "Ok")]
    /\ UNCHANGED <<database, xact_session>>
    /\ UNCHANGED <<app_env, app_methods, absorbed, wconn>>
    /\ UNCHANGED <<sip_vars, reg_vars, pub_vars>>

\* The dispatch of one call: the handler runs; when it fails the runtime
\* reports the failure and calls api_call_error, and the worker goes on.
ApiCall(w, api) ==
    /\ wstate[w] = "serving"
    /\ \E r \in { handler(api, unwrap(database[w]), handler_ok) :
                  handler_ok \in BOOLEAN } :
         LET after == IF r.res = "Ok" THEN Some(r.db)
                      ELSE api_call_error(Some(r.db)).database
         IN  /\ database' = [database EXCEPT ![w] = after]
             /\ xact_session' = [xact_session EXCEPT ![w] =
                    IF ~in_transaction(unwrap(after)) THEN 0
                    ELSE IF has_xact(w) THEN @ ELSE wsession[w]]
             /\ wlast' = [wlast EXCEPT ![w] =
                    [Op("api_call", api, has_xact(w), FALSE, r.res)
                       EXCEPT !.after_failure =
                          /\ api = "transaction.commit"
                          /\ wlast[w].op = "api_call"
                          /\ wlast[w].res = "Err"
                          /\ wlast[w].pre_xact]]
    /\ UNCHANGED <<wstate, wsession, next_session>>
    /\ UNCHANGED <<app_env, app_methods, absorbed, wconn>>
    /\ UNCHANGED <<sip_vars, reg_vars, pub_vars>>

\* The session ends (the caller disconnects, or the transport fails): the
\* runtime calls end_session and the worker returns to the idle pool.
EndSession(w) ==
    /\ wstate[w] = "serving"
    /\ LET r == end_session(database[w])
       IN  /\ database' = [database EXCEPT ![w] = r.database]
           /\ xact_session' = [xact_session EXCEPT ![w] =
                  IF is_some(r.database) /\ in_transaction(unwrap(r.database))
                  THEN @ ELSE 0]
           /\ wlast' = [wlast EXCEPT ![w] =
                  Op("end_session", "none", has_xact(w), FALSE, r.res)]
    /\ wstate' = [wstate EXCEPT ![w] = "idle"]
    /\ wsession' = [wsession EXCEPT ![w] = 0]
    /\ UNCHANGED next_session
    /\ UNCHANGED <<app_env, app_methods, absorbed, wconn>>
    /\ UNCHANGED <<sip_vars, reg_vars, pub_vars>>

\* The caller goes silent past the keepalive interval: the runtime calls
\* keepalive_timeout and the worker returns to the idle pool.
KeepaliveTimeout(w) ==
    /\ wstate[w] = "serving"
    /\ LET r == keepalive_timeout(database[w])
       IN  /\ database' = [database EXCEPT ![w] = r.database]
           /\ xact_session' = [xact_session EXCEPT ![w] =
                  IF is_some(r.database) /\ in_transaction(unwrap(r.database))
                  THEN @ ELSE 0]
           /\ wlast' = [wlast EXCEPT ![w] =
                  Op("keepalive_timeout", "none", has_xact(w), FALSE, r.res)]
    /\ wstate' = [wstate EXCEPT ![w] = "idle"]
    /\ wsession' = [wsession EXCEPT ![w] = 0]
    /\ UNCHANGED next_session
    /\ UNCHANGED <<app_env, app_methods, absorbed, wconn>>
    /\ UNCHANGED <<sip_vars, reg_vars, pub_vars>>

\* The pool shuts an idle worker down: the runtime calls worker_end.
WorkerEnd(w) ==
    /\ wstate[w] = "idle"
    /\ LET r == worker_end(database[w])
       IN  /\ database' = [database EXCEPT ![w] = r.database]
           /\ wlast' = [wlast EXCEPT ![w] =
                  Op("worker_end", "none", has_xact(w), FALSE, r.res)]
    /\ wstate' = [wstate EXCEPT ![w] = "ended"]
    /\ UNCHANGED <<wsession, xact_session, next_session>>
    /\ UNCHANGED <<app_env, app_methods, absorbed, wconn>>
    /\ UNCHANGED <<sip_vars, reg_vars, pub_vars>>

StoreNext ==
    \/ \E w \in Workers : AbsorbEnv(w)
    \/ \E w \in Workers : WorkerStart(w)
    \/ \E w \in Workers : StartSession(w)
    \/ \E w \in Workers : \E api \in Apis : ApiCall(w, api)
    \/ \E w \in Workers : EndSession(w)
    \/ \E w \in Workers : KeepaliveTimeout(w)
    \/ \E w \in Workers : WorkerEnd(w)

\* ------------------------------------------------------------------------
\* The SIP2 gateway session
\* ------------------------------------------------------------------------

\* Seconds a receive blocks before the loop looks at the shutdown flag again.
SIP_RECV_TIMEOUT == 5

\* A mutant: the capability flags with the last position dropped.
INSTITUTION_SUPPORTS_short ==
    <<"Y", "Y", "Y", "N", "Y", "N", "Y", "Y", "N", "Y", "Y", "N", "N", "N", "Y">>

\* The capability flags of the ACS status response, by position.
INSTITUTION_SUPPORTS ==
    <<"Y", "Y", "Y", "N", "Y", "N", "Y", "Y", "N", "Y", "Y", "N", "N", "N", "Y", "N">>

\* The SIP accounts of the configuration file: SIP username, SIP password,
\* the ILS username the account maps to, and the cached ILS user id, which
\* the configuration leaves unset.
SipAccounts ==
    { [sip_username |-> "lib1", sip_password |-> "pw1",
       ils_username |-> "staff1", ils_user_id |-> None],
      [sip_username |-> "lib2", sip_password |-> "pw2",
       ils_username |-> "staff2", ils_user_id |-> None] }

\* conf::Config::get_account
get_account(username) ==
    LET found == {a \in SipAccounts : a.sip_username = username}
    IN  IF found = {} THEN None ELSE Some(CHOOSE a \in found : TRUE)

\* The ILS usernames the accounts map to.
IlsUsernames == {a.ils_username : a \in SipAccounts}

\* The id of the ILS user with a given username (the backend's data).
IlsUserId(ils_username) == IF ils_username = "staff1" THEN 1 ELSE 2

\* The request codes with an entry in the dispatch of handle_sip_request.
GatedCodes == {"09", "11", "17", "23", "37", "63"}

DispatchCodes == {"99", "93"} \cup GatedCodes

\* Request codes of the protocol that the dispatch has no entry for:
\* block patron, renew, end patron session.
OtherCodes == {"01", "29", "35"}

Usernames == {"lib1", "lib2", "nobody"}

Passwords == {"pw1", "pw2"}

\* The requests a client may send: a login with or without each of its two
\* fields, and one request of every other code.
Requests ==
    { [code |-> "93", CN |-> cn, CO |-> co] :
        cn \in {None} \cup {Some(u) : u \in Usernames},
        co \in {None} \cup {Some(p) : p \in Passwords} }
    \cup { [code |-> c, CN |-> None, CO |-> None] :
             c \in (DispatchCodes \ {"93"}) \cup OtherCodes }

\* A response: its code, the ok flag of a login response, the BX field of
\* an ACS status response and its AO field.
Response(code, ok, bx, ao) == [code |-> code, ok |-> ok, BX |-> bx, AO |-> ao]

\* What a call of set_authtoken did: the answer of the token probe ("none"
\* when no probe was made), whether login was called, whether
\* get_ils_user_id searched for the user, and the result.
NoTrace ==
    [called |-> FALSE, probe |-> "none", login |-> FALSE, search |-> FALSE,
     res |-> "none"]

Trace(probe, login, search, res) ==
    [called |-> TRUE, probe |-> probe, login |-> login, search |-> search,
     res |-> res]

\* A handler's result: the session fields afterwards, Ok(resp) or Err(err),
\* the handler that ran and what its call of set_authtoken did, if any.
Ok(acct, tok, resp, h) ==
    [account |-> acct, authtoken |-> tok, res |-> "Ok", resp |-> Some(resp),
     err |-> "none", handler |-> h, trace |-> NoTrace]

Err(acct, tok, e, h) ==
    [account |-> acct, authtoken |-> tok, res |-> "Err", resp |-> None,
     err |-> e, handler |-> h, trace |-> NoTrace]

\* The result of a handler that called set_authtoken.
Traced(r, t) == [r EXCEPT !.trace = t.trace]

\* What the backend answers during one request: the token probe, the user
\* search, the internal login, the probe after it, and any later call.
BackendOutcomes ==
    [checkauth : {"true", "false", "err"},
     search : {"found", "empty", "err"},
     internal_session : {"some", "none", "err"},
     recheck : {"ok", "err"},
     call : {"ok", "err"}]

\* The bridge token of the editor records the ILS user it was issued for.
Token(user_id) == [user |-> user_id]

\* has_account: true if the SIP client has successfully logged in.
has_account(acct) == is_some(acct)

\* get_ils_user_id, on the session's account: the cached id when there is
\* one, else the id of the ILS user the search finds, cached on the account.
get_ils_user_id(a, b) ==
    IF is_some(a.ils_user_id)
    THEN [account |-> a, res |-> "Ok", id |-> unwrap(a.ils_user_id),
          search |-> FALSE]
    ELSE IF b.search # "found"
    THEN [account |-> a, res |-> "Err", id |-> 0, search |-> TRUE]
    ELSE LET user_id == IlsUserId(a.ils_username)
         IN  [account |-> [a EXCEPT !.ils_user_id = Some(user_id)],
              res |-> "Ok", id |-> user_id, search |-> TRUE]

\* login: create an internal auth session in the ILS and keep its token.
login(acct, tok, b) ==
    LET u == get_ils_user_id(unwrap(acct), b)
    IN  IF u.res = "Err"
        THEN [account |-> acct, authtoken |-> tok, res |-> "Err",
              search |-> u.search]
        ELSE IF b.internal_session # "some"
        THEN [account |-> Some(u.account), authtoken |-> tok, res |-> "Err",
              search |-> u.search]
        ELSE [account |-> Some(u.account), authtoken |-> Some(Token(u.id)),
              res |-> IF b.recheck = "ok" THEN "Ok" ELSE "Err",
              search |-> u.search]

\* The result of set_authtoken when it goes on to login.
set_authtoken_login(acct, tok, b, probe) ==
    LET l == login(acct, tok, b)
    IN  [account |-> l.account, authtoken |-> l.authtoken, res |-> l.res,
         trace |-> Trace(probe, TRUE, l.search, l.res)]

\* A mutant: set_authtoken that logs in whatever the probe says.
set_authtoken_eager(acct, tok, b) ==
    IF is_some(tok) /\ b.checkauth = "err"
    THEN [account |-> acct, authtoken |-> tok, res |-> "Err",
          trace |-> Trace("err", FALSE, FALSE, "Err")]
    ELSE set_authtoken_login(acct, tok, b,
                             IF is_some(tok) THEN b.checkauth ELSE "none")

\* set_authtoken: verify the existing token if present, log in when needed.
set_authtoken(acct, tok, b) ==
    IF is_some(tok) /\ b.checkauth = "err"
    THEN [account |-> acct, authtoken |-> tok, res |-> "Err",
          trace |-> Trace("err", FALSE, FALSE, "Err")]
    ELSE IF is_some(tok) /\ b.checkauth = "true"
    THEN [account |-> acct, authtoken |-> tok, res |-> "Ok",
          trace |-> Trace("true", FALSE, FALSE, "Ok")]
    ELSE set_authtoken_login(acct, tok, b,
                             IF is_some(tok) THEN "false" ELSE "none")

\* A mutant: handle_login that keeps the account of an earlier login.
handle_login_keeps_account(msg, acct, tok) ==
    LET cn == msg.CN
        co == msg.CO
        found == IF is_some(cn) THEN get_account(unwrap(cn)) ELSE None
        login_ok == /\ is_some(cn) /\ is_some(co) /\ is_some(found)
                    /\ unwrap(found).sip_password = unwrap(co)
    IN  Ok(IF login_ok THEN found ELSE acct, tok,
           Response("94", IF login_ok THEN "1" ELSE "0", None, None),
           "handle_login")

\* A mutant: handle_login that does not compare the password.
handle_login_any_password(msg, acct, tok) ==
    LET cn == msg.CN
        co == msg.CO
        found == IF is_some(cn) THEN get_account(unwrap(cn)) ELSE None
        login_ok == is_some(cn) /\ is_some(co) /\ is_some(found)
    IN  Ok(IF login_ok THEN found ELSE None, tok,
           Response("94", IF login_ok THEN "1" ELSE "0", None, None),
           "handle_login")

\* handle_login: the account is unset first; it is set to a copy of the
\* configured account when both fields are there, the account exists and
\* its password is the one sent.  The result is always Ok(login response).
handle_login(msg, acct, tok) ==
    LET cn == msg.CN
        co == msg.CO
        found == IF is_some(cn) THEN get_account(unwrap(cn)) ELSE None
        login_ok == /\ is_some(cn) /\ is_some(co) /\ is_some(found)
                    /\ unwrap(found).sip_password = unwrap(co)
    IN  Ok(IF login_ok THEN found ELSE None, tok,
           Response("94", IF login_ok THEN "1" ELSE "0", None, None),
           "handle_login")

\* The status response once the before-login check has passed.  When
\* logged in, AO carries the institution of the account (its SIP username
\* stands for it here), the bridge token is made sure of and the
\* workstation's org unit is fetched.
sc_status_response(acct, tok, b) ==
    IF is_some(acct)
    THEN LET t == set_authtoken(acct, tok, b)
             ao == Some(unwrap(acct).sip_username)
         IN  IF t.res = "Err"
             THEN Traced(Err(t.account, t.authtoken, "backend",
                             "handle_sc_status"), t)
             ELSE IF b.call = "err"
             THEN Traced(Err(t.account, t.authtoken, "backend",
                             "handle_sc_status"), t)
             ELSE Traced(Ok(t.account, t.authtoken,
                            Response("98", "1", Some(INSTITUTION_SUPPORTS), ao),
                            "handle_sc_status"), t)
    ELSE Ok(acct, tok, Response("98", "1", Some(INSTITUTION_SUPPORTS), None),
            "handle_sc_status")

\* A mutant: handle_sc_status that does not look at the deployment flag.
handle_sc_status_ungated(acct, tok, flag, b) == sc_status_response(acct, tok, b)

\* handle_sc_status: an error before login when the deployment disables it;
\* else the ACS status response, with the institution and the workstation's
\* org unit when logged in.
handle_sc_status(acct, tok, flag, b) ==
    IF is_none(acct) /\ ~flag
    THEN Err(acct, tok, "status_disabled", "handle_sc_status")
    ELSE sc_status_response(acct, tok, b)

\* What the handlers of the six gated codes share: each makes sure of the
\* bridge token, calls the backend and builds its own response.
handle_gated(name, resp_code, acct, tok, b) ==
    LET t == set_authtoken(acct, tok, b)
    IN  IF t.res = "Err" \/ b.call = "err"
        THEN Traced(Err(t.account, t.authtoken, "backend", name), t)
        ELSE Traced(Ok(t.account, t.authtoken,
                       Response(resp_code, "1", None, None), name), t)

handle_checkin(acct, tok, b) == handle_gated("handle_checkin", "10", acct, tok, b)

handle_checkout(acct, tok, b) == handle_gated("handle_checkout", "12", acct, tok, b)

handle_item_info(acct, tok, b) == handle_gated("handle_item_info", "18", acct, tok, b)

handle_patron_status(acct, tok, b) ==
    handle_gated("handle_patron_status", "24", acct, tok, b)

handle_payment(acct, tok, b) == handle_gated("handle_payment", "38", acct, tok, b)

handle_patron_info(acct, tok, b) ==
    handle_gated("handle_patron_info", "64", acct, tok, b)

\* A mutant: handle_sip_request that looks for the code in its table before
\* it looks at the account.
handle_sip_request_validates_first(msg, acct, tok, flag, b) ==
    LET code == msg.code
    IN  IF code = "99" THEN handle_sc_status(acct, tok, flag, b)
        ELSE IF code = "93" THEN handle_login(msg, acct, tok)
        ELSE IF code \notin GatedCodes
        THEN Err(acct, tok, "unsupported", "none")
        ELSE IF is_none(acct) THEN Err(acct, tok, "not_logged_in", "none")
        ELSE IF code = "09" THEN handle_checkin(acct, tok, b)
        ELSE IF code = "11" THEN handle_checkout(acct, tok, b)
        ELSE IF code = "17" THEN handle_item_info(acct, tok, b)
        ELSE IF code = "23" THEN handle_patron_status(acct, tok, b)
        ELSE IF code = "37" THEN handle_payment(acct, tok, b)
        ELSE handle_patron_info(acct, tok, b)

\* A mutant: handle_sip_request that drops the account on an end patron
\* session request (35) before refusing it.
handle_sip_request_end_session_logs_out(msg, acct, tok, flag, b) ==
    LET code == msg.code
    IN  IF code = "99" THEN handle_sc_status(acct, tok, flag, b)
        ELSE IF code = "93" THEN handle_login(msg, acct, tok)
        ELSE IF is_none(acct) THEN Err(acct, tok, "not_logged_in", "none")
        ELSE IF code = "09" THEN handle_checkin(acct, tok, b)
        ELSE IF code = "11" THEN handle_checkout(acct, tok, b)
        ELSE IF code = "17" THEN handle_item_info(acct, tok, b)
        ELSE IF code = "23" THEN handle_patron_status(acct, tok, b)
        ELSE IF code = "37" THEN handle_payment(acct, tok, b)
        ELSE IF code = "63" THEN handle_patron_info(acct, tok, b)
        ELSE IF code = "35" THEN Err(None, tok, "unsupported", "none")
        ELSE Err(acct, tok, "unsupported", "none")

\* A mutant: handle_sip_request that routes a checkin to the checkout handler.
handle_sip_request_misrouted(msg, acct, tok, flag, b) ==
    LET code == msg.code
    IN  IF code = "99" THEN handle_sc_status(acct, tok, flag, b)
        ELSE IF code = "93" THEN handle_login(msg, acct, tok)
        ELSE IF is_none(acct) THEN Err(acct, tok, "not_logged_in", "none")
        ELSE IF code = "09" THEN handle_checkout(acct, tok, b)
        ELSE IF code = "11" THEN handle_checkout(acct, tok, b)
        ELSE IF code = "17" THEN handle_item_info(acct, tok, b)
        ELSE IF code = "23" THEN handle_patron_status(acct, tok, b)
        ELSE IF code = "37" THEN handle_payment(acct, tok, b)
        ELSE IF code = "63" THEN handle_patron_info(acct, tok, b)
        ELSE Err(acct, tok, "unsupported", "none")

\* handle_sip_request: process a single SIP request.  Status and login are
\* served in any state; every other code needs an account, and only the six
\* codes of the match have a handler.
handle_sip_request(msg, acct, tok, flag, b) ==
    LET code == msg.code
    IN  IF code = "99" THEN handle_sc_status(acct, tok, flag, b)
        ELSE IF code = "93" THEN handle_login(msg, acct, tok)
        ELSE IF is_none(acct) THEN Err(acct, tok, "not_logged_in", "none")
        ELSE IF code = "09" THEN handle_checkin(acct, tok, b)
        ELSE IF code = "11" THEN handle_checkout(acct, tok, b)
        ELSE IF code = "17" THEN handle_item_info(acct, tok, b)
        ELSE IF code = "23" THEN handle_patron_status(acct, tok, b)
        ELSE IF code = "37" THEN handle_payment(acct, tok, b)
        ELSE IF code = "63" THEN handle_patron_info(acct, tok, b)
        ELSE Err(acct, tok, "unsupported", "none")

\* The record of a handled request: its number, code and fields, the
\* account before it, the shutdown flag as it stood, the handler that ran
\* and the result.
NoRequest ==
    [n |-> 0, code |-> "none", msg |-> None, pre_account |-> None,
     pre_authtoken |-> None, shutdown |-> FALSE, handler |-> "none",
     res |-> "Ok", err |-> "none", trace |-> NoTrace]

\* Session::start returns: the session is dropped and with it the socket.
Exit(res, err) ==
    /\ pc' = "exited"
    /\ exit_res' = Some([res |-> res, err |-> err])
    /\ connected' = FALSE

\* The server sets the shared shutdown flag.
SetShutdown ==
    /\ ~shutdown
    /\ shutdown' = TRUE
    /\ UNCHANGED <<pc, sip_fixed, account, authtoken, sip_req,
                   sip_resp, sent, nrecv, connected, exit_res, slast,
                   lookups>>
    /\ UNCHANGED <<store_vars, reg_vars, pub_vars>>

\* The top of the loop: leave it when the shutdown flag is set.
CheckShutdown ==
    /\ pc = "loop"
    /\ pc' = IF shutdown THEN "disconnect" ELSE "recv"
    /\ UNCHANGED <<shutdown, sip_fixed, account, authtoken,
                   sip_req, sip_resp, sent, nrecv, connected, exit_res, slast,
                   lookups>>
    /\ UNCHANGED <<store_vars, reg_vars, pub_vars>>

\* A mutant: the flag is looked at again once a request has arrived, and
\* the loop is left with the request unanswered.
RecvRequest_then_check_shutdown ==
    /\ pc = "recv"
    /\ nrecv < client_requests
    /\ \E msg \in Requests :
         /\ sip_req' = Some(msg)
         /\ nrecv' = nrecv + 1
         /\ pc' = IF shutdown THEN "disconnect" ELSE "handle"
    /\ UNCHANGED <<shutdown, sip_fixed, account, authtoken,
                   sip_resp, sent, connected, exit_res, slast,
                   lookups>>
    /\ UNCHANGED <<store_vars, reg_vars, pub_vars>>

\* recv_with_timeout returns a request.
RecvRequest ==
    /\ pc = "recv"
    /\ nrecv < client_requests
    /\ \E msg \in Requests :
         /\ sip_req' = Some(msg)
         /\ nrecv' = nrecv + 1
         /\ pc' = "handle"
    /\ UNCHANGED <<shutdown, sip_fixed, account, authtoken,
                   sip_resp, sent, connected, exit_res, slast,
                   lookups>>
    /\ UNCHANGED <<store_vars, reg_vars, pub_vars>>

\* A mutant: a receive with no timeout, which returns only with a request
\* or a failure.
RecvBlocking ==
    /\ FALSE
    /\ UNCHANGED vars

\* recv_with_timeout times out: back to the top of the loop.
RecvTimeout ==
    /\ pc = "recv"
    /\ pc' = "loop"
    /\ UNCHANGED <<shutdown, sip_fixed, account, authtoken,
                   sip_req, sip_resp, sent, nrecv, connected, exit_res, slast,
                   lookups>>
    /\ UNCHANGED <<store_vars, reg_vars, pub_vars>>

\* recv_with_timeout fails (the client chopped off the socket): start
\* returns the error.
RecvFailed ==
    /\ pc = "recv"
    /\ Exit("Err", "recv")
    /\ UNCHANGED <<shutdown, sip_fixed, account, authtoken,
                   sip_req, sip_resp, sent, nrecv, slast,
                   lookups>>
    /\ UNCHANGED <<store_vars, reg_vars, pub_vars>>

\* handle_sip_request(&sip_req)?: an Err leaves start at once, unanswered.
HandleRequest ==
    /\ pc = "handle"
    /\ \E r \in { handle_sip_request(unwrap(sip_req), account, authtoken,
                                     sc_status_before_login, b) :
                  b \in BackendOutcomes } :
         LET msg == unwrap(sip_req)
         IN  /\ account' = r.account
             /\ authtoken' = r.authtoken
             /\ sip_resp' = r.resp
             /\ slast' = [n |-> nrecv, code |-> msg.code, msg |-> sip_req,
                          pre_account |-> account,
                          pre_authtoken |-> authtoken,
                          shutdown |-> shutdown, handler |-> r.handler,
                          res |-> r.res, err |-> r.err, trace |-> r.trace]
             /\ lookups' = IF r.trace.search
                           THEN [lookups EXCEPT
                                   ![unwrap(account).ils_username] = @ + 1]
                           ELSE lookups
             /\ IF r.res = "Ok"
                THEN /\ pc' = "send"
                     /\ UNCHANGED <<connected, exit_res>>
                ELSE Exit("Err", r.err)
    /\ UNCHANGED <<shutdown, sip_fixed, sip_req, sent, nrecv>>
    /\ UNCHANGED <<store_vars, reg_vars, pub_vars>>

\* The response is sent back to the SIP client.
SendResponse ==
    /\ pc = "send"
    /\ sent' = Append(sent, unwrap(sip_resp))
    /\ sip_req' = None
    /\ sip_resp' = None
    /\ pc' = "loop"
    /\ UNCHANGED <<shutdown, sip_fixed, account, authtoken,
                   nrecv, connected, exit_res, slast,
                   lookups>>
    /\ UNCHANGED <<store_vars, reg_vars, pub_vars>>

\* The send fails: start returns the error.
SendFailed ==
    /\ pc = "send"
    /\ Exit("Err", "send")
    /\ UNCHANGED <<shutdown, sip_fixed, account, authtoken,
                   sip_req, sip_resp, sent, nrecv, slast,
                   lookups>>
    /\ UNCHANGED <<store_vars, reg_vars, pub_vars>>

\* After the loop: disconnect, ignoring its result, and return Ok.
Disconnect ==
    /\ pc = "disconnect"
    /\ Exit("Ok", "none")
    /\ UNCHANGED <<shutdown, sip_fixed, account, authtoken,
                   sip_req, sip_resp, sent, nrecv, slast,
                   lookups>>
    /\ UNCHANGED <<store_vars, reg_vars, pub_vars>>

SipNext ==
    \/ SetShutdown
    \/ CheckShutdown
    \/ RecvRequest
    \/ RecvTimeout
    \/ RecvFailed
    \/ HandleRequest
    \/ SendResponse
    \/ SendFailed
    \/ Disconnect

\* ------------------------------------------------------------------------
\* Startup of the store service (RsStoreApplication): loading the IDL and
\* building the list of published methods.  A method name is the sequence
\* of its pieces and a fieldmapper value the sequence of its characters, so
\* that replace("::", ".") is computed and not assumed.
\* ------------------------------------------------------------------------

APPNAME == "open-ils.rs-store"

\* Number of classes in the parsed IDL.
MaxClasses == 3

\* Number of times register_methods is run on one IDL.
MaxRuns == 2

\* The stub definitions register_auto_methods looks up, in its order, and
\* the operation each is published under.
Stubs == <<"create-stub", "retrieve-stub", "search-stub", "update-stub",
           "delete-stub">>

Operations == <<"create", "retrieve", "search", "update", "delete">>

\* The definitions register_xact_methods looks up, in its order.
XactNames == <<"transaction.begin", "transaction.rollback",
               "transaction.commit">>

\* The elements of a sequence.
ElementsOf(seq) == {seq[i] : i \in DOMAIN seq}

\* methods::METHODS of the store service as built: every definition that
\* app.rs looks up, or all but one of them.
StaticNames == ElementsOf(Stubs) \cup ElementsOf(XactNames)

MethodsChoices == {StaticNames} \cup {StaticNames \ {n} : n \in StaticNames}

\* idl::Class: controller is the list of services of the class's
\* controller attribute, fieldmapper the characters of its mapper id.
Class(classname, controller, fieldmapper) ==
    [classname |-> classname, controller |-> controller,
     fieldmapper |-> fieldmapper]

\* The classes an IDL may hold.
IdlClasses ==
    { Class("au", Some(<<"open-ils.cstore", "open-ils.pcrud">>),
            Some(<<"a", ":", ":", "u">>)),
      Class("aou", Some(<<"open-ils.rs-store">>),
            Some(<<"a", ":", ":", "o">>)),
      Class("auv", Some(<<"open-ils.cstore">>),
            Some(<<"a", ".", "u">>)),
      Class("rs", Some(<<"open-ils.reporter-store">>),
            Some(<<"r", ":", ":", "s">>)),
      Class("mvr", None,
            Some(<<"m", ":", ":", "v">>)),
      Class("cbc", Some(<<"open-ils.cstore", "open-ils.rs-store">>),
            None) }

\* The IDLs: up to MaxClasses of these classes.
Snapshots == {S \in SUBSET IdlClasses : Cardinality(S) <= MaxClasses}

\* HashMap::values(): the classes in some order, each once.
values(classes) ==
    {f \in [1..Cardinality(classes) -> classes] :
        \A i, j \in DOMAIN f : i # j => f[i] # f[j]}

\* ctrl.contains(service), at the grain of one service name.
contains(ctrl, service) == \E i \in DOMAIN ctrl : ctrl[i] = service

\* fm.replace("::", "."): every match, left to right, none overlapping.
RECURSIVE replace(_)
replace(str) ==
    IF str = <<>> THEN <<>>
    ELSE IF Len(str) >= 2 /\ str[1] = ":" /\ str[2] = ":"
         THEN <<".">> \o replace(SubSeq(str, 3, Len(str)))
    ELSE <<str[1]>> \o replace(Tail(str))

\* StaticMethod::into_method(api_prefix): the method of a definition, named
\* <api_prefix>.<definition name>.  class is a ghost: the IDL class a
\* method was made for.
into_method(static, api_prefix) ==
    [name |-> <<api_prefix, ".", static>>, handler |-> static,
     class |-> "none"]

\* format!("{APPNAME}.direct.{fieldmapper}.<operation>")
apiname(fieldmapper, operation) ==
    <<APPNAME, ".", "direct", ".">> \o fieldmapper \o <<".", operation>>

\* A clone of a stub under its published name.
clone(stub, name, c) ==
    [into_method(stub, APPNAME) EXCEPT !.name = name, !.class = c.classname]

\* A mutant: the body of the loop with the UPDATE block naming its clone
\* as the SEARCH block does.
class_methods_copy_paste(c) ==
    LET fieldmapper == replace(unwrap(c.fieldmapper))
    IN  [i \in 1..5 |->
            clone(Stubs[i],
                  apiname(fieldmapper, IF i = 4 THEN "search" ELSE Operations[i]),
                  c)]

\* The body of the loop of register_auto_methods: the five pushes for one
\* class.
class_methods(c) ==
    LET fieldmapper == replace(unwrap(c.fieldmapper))
    IN  [i \in 1..5 |-> clone(Stubs[i], apiname(fieldmapper, Operations[i]), c)]

\* The first filter of the loop: classes controlled by cstore or rs-store.
controlled(c) ==
    IF is_some(c.controller)
    THEN \/ contains(unwrap(c.controller), "open-ils.cstore")
         \/ contains(unwrap(c.controller), "open-ils.rs-store")
    ELSE FALSE

\* The loop of register_auto_methods over the classes in iteration order.
RECURSIVE auto_loop(_, _)
auto_loop(classes, methods) ==
    IF classes = <<>> THEN methods
    ELSE LET c == Head(classes)
         IN  auto_loop(Tail(classes),
                       IF controlled(c) /\ is_some(c.fieldmapper)
                       THEN methods \o class_methods(c)
                       ELSE methods)

\* A mutant: the loop with the fieldmapper filter written as take_while, so
\* that it ends at the first controlled class without a fieldmapper.
RECURSIVE auto_loop_take_while(_, _)
auto_loop_take_while(classes, methods) ==
    IF classes = <<>> THEN methods
    ELSE LET c == Head(classes)
         IN  IF ~controlled(c) THEN auto_loop_take_while(Tail(classes), methods)
             ELSE IF is_none(c.fieldmapper) THEN methods
             ELSE auto_loop_take_while(Tail(classes), methods \o class_methods(c))

\* A mutant: each stub is looked up where the loop uses it, so a missing
\* stub panics with the pushes made so far.
RECURSIVE auto_loop_lazy_stubs(_, _, _)
auto_loop_lazy_stubs(METHODS_, classes, methods) ==
    IF classes = <<>> THEN [res |-> "Ok", methods |-> methods]
    ELSE LET c == Head(classes)
             missing == {i \in 1..5 : Stubs[i] \notin METHODS_}
             first == CHOOSE i \in missing : \A j \in missing : i <= j
         IN  IF ~(controlled(c) /\ is_some(c.fieldmapper))
             THEN auto_loop_lazy_stubs(METHODS_, Tail(classes), methods)
             ELSE IF missing = {}
             THEN auto_loop_lazy_stubs(METHODS_, Tail(classes),
                                       methods \o class_methods(c))
             ELSE [res |-> "panic",
                   methods |-> methods \o SubSeq(class_methods(c), 1, first - 1)]

register_auto_methods_take_while(METHODS_, classes, methods) ==
    IF \E i \in 1..5 : Stubs[i] \notin METHODS_
    THEN [res |-> "panic", methods |-> methods]
    ELSE [res |-> "Ok", methods |-> auto_loop_take_while(classes, methods)]

register_auto_methods_lazy_stubs(METHODS_, classes, methods) ==
    auto_loop_lazy_stubs(METHODS_, classes, methods)

\* register_auto_methods: the five stubs are looked up and unwrapped first
\* (a missing one panics), then the loop pushes onto methods.  The result
\* holds methods as they stand when the function returns or panics.
register_auto_methods(METHODS_, classes, methods) ==
    IF \E i \in 1..5 : Stubs[i] \notin METHODS_
    THEN [res |-> "panic", methods |-> methods]
    ELSE [res |-> "Ok", methods |-> auto_loop(classes, methods)]

\* register_xact_methods: each definition is looked up, unwrapped and
\* pushed in turn.
RECURSIVE xact_loop(_, _, _)
xact_loop(METHODS_, names, methods) ==
    IF names = <<>> THEN [res |-> "Ok", methods |-> methods]
    ELSE IF Head(names) \notin METHODS_
         THEN [res |-> "panic", methods |-> methods]
    ELSE xact_loop(METHODS_, Tail(names),
                   Append(methods, into_method(Head(names), APPNAME)))

\* A mutant: register_xact_methods that pushes the rollback method a second
\* time in place of the commit method.
register_xact_methods_rollback_twice(METHODS_, methods) ==
    xact_loop(METHODS_,
              <<"transaction.begin", "transaction.rollback",
                "transaction.rollback">>,
              methods)

register_xact_methods(METHODS_, methods) ==
    xact_loop(METHODS_, XactNames, methods)

\* register_methods: a fresh Vec, the auto methods, the transaction
\* methods, Ok(methods).
register_methods(METHODS_, classes) ==
    LET auto == register_auto_methods(METHODS_, classes, <<>>)
    IN  IF auto.res = "panic" THEN auto
        ELSE register_xact_methods(METHODS_, auto.methods)

\* The process starts: methods::METHODS is what was built in, and
\* Application::init parses the IDL file.  When init returns Err the
\* service does not start and nothing follows.
Application_init ==
    /\ is_none(idl)
    /\ \E S \in Snapshots : idl' = Some(S)
    /\ \E M \in MethodsChoices : store_METHODS' = M
    /\ UNCHANGED registered
    /\ UNCHANGED <<store_vars, sip_vars, pub_vars>>

\* The server asks for the methods to publish.  A panic ends the process.
RegisterMethods ==
    /\ is_some(idl)
    /\ Len(registered) < MaxRuns
    /\ \A i \in DOMAIN registered : registered[i].res = "Ok"
    /\ \E r \in { register_methods(store_METHODS, classes) :
                  classes \in values(unwrap(idl)) } :
         registered' = Append(registered, r)
    /\ UNCHANGED <<idl, store_METHODS>>
    /\ UNCHANGED <<store_vars, sip_vars, pub_vars>>

RegNext ==
    \/ Application_init
    \/ RegisterMethods

\* ------------------------------------------------------------------------
\* Dispatch of a call on a worker of the public service (eg-svc-rspub).
\* ------------------------------------------------------------------------

\* Number of calls the worker is handed in one run.
MaxCalls == 3

\* Largest number of parameters a call carries.
MaxArgs == 5

\* opensrf::method::ParamCount
Exactly(n) == <<"Exactly", n>>

Range(min, max) == <<"Range", min, max>>

\* A mutant: the table with get_barcodes declared as Range(3, 4).
METHODS_optional_barcode ==
    << [name |-> "get_barcodes", param_count |-> Range(3, 4)],
       [name |-> "user_has_work_perm_at.batch", param_count |-> Range(2, 3)],
       [name |-> "ou_setting.ancestor_default.batch", param_count |-> Range(2, 3)],
       [name |-> "user.opac.vital_stats", param_count |-> Range(1, 2)] >>

\* methods::METHODS of the public service: the name and the param_count of
\* each definition.
METHODS ==
    << [name |-> "get_barcodes", param_count |-> Exactly(4)],
       [name |-> "user_has_work_perm_at.batch", param_count |-> Range(2, 3)],
       [name |-> "ou_setting.ancestor_default.batch", param_count |-> Range(2, 3)],
       [name |-> "user.opac.vital_stats", param_count |-> Range(1, 2)] >>

\* The method names a caller may ask for: the published ones and one that
\* is not published.
PubApis == {METHODS[i].name : i \in DOMAIN METHODS} \cup {"no_such_method"}

\* The lookup of the method by name.
find_method(name) ==
    LET found == {i \in DOMAIN METHODS : METHODS[i].name = name}
    IN  IF found = {} THEN None
        ELSE Some(METHODS[CHOOSE i \in found : \A j \in found : i <= j])

\* ParamCount::matches
matches(param_count, count) ==
    IF param_count[1] = "Exactly" THEN count = param_count[2]
    ELSE param_count[2] <= count /\ count <= param_count[3]

\* One turn of the dispatch loop: look the method up, validate the number
\* of parameters, invoke the handler, report its failure to the caller.
dispatch(api, nargs, handler_ok) ==
    LET method == find_method(api)
    IN  IF is_none(method)
        THEN [invoked |-> FALSE, res |-> "no_such_method"]
        ELSE IF ~matches(unwrap(method).param_count, nargs)
        THEN [invoked |-> FALSE, res |-> "bad_param_count"]
        ELSE [invoked |-> TRUE, res |-> IF handler_ok THEN "Ok" ELSE "Err"]

\* No call dispatched yet.  prev is the result of the call before.
NoCall ==
    [api |-> "none", nargs |-> 0, invoked |-> FALSE, res |-> "none",
     prev |-> "none"]

\* The worker is handed a call.
PubCall ==
    /\ pub_state = "listening"
    /\ pub_calls < MaxCalls
    /\ \E api \in PubApis, nargs \in 0..MaxArgs :
         \E r \in { dispatch(api, nargs, handler_ok) : handler_ok \in BOOLEAN } :
            /\ pub_last' = [api |-> api, nargs |-> nargs,
                            invoked |-> r.invoked, res |-> r.res,
                            prev |-> pub_last.res]
            /\ pub_invoked' = IF r.invoked THEN pub_invoked + 1 ELSE pub_invoked
    /\ pub_calls' = pub_calls + 1
    /\ UNCHANGED pub_state
    /\ UNCHANGED <<store_vars, sip_vars, reg_vars>>

\* The runtime stops the worker.
PubWorkerEnd ==
    /\ pub_state = "listening"
    /\ pub_state' = "ended"
    /\ UNCHANGED <<pub_calls, pub_invoked, pub_last>>
    /\ UNCHANGED <<store_vars, sip_vars, reg_vars>>

PubNext ==
    \/ PubCall
    \/ PubWorkerEnd

\* The state after construction: the workers as RsStoreWorker::new leaves
\* them, the session as Session::run builds it, the store application as
\* RsStoreApplication::new leaves it, the public worker listening.  The
\* client of the gateway session sends up to MaxRecv requests.
Init ==
    /\ wstate = [w \in Workers |-> "new"]
    /\ database = [w \in Workers |-> RsStoreWorker_new]
    /\ wsession = [w \in Workers |-> 0]
    /\ xact_session = [w \in Workers |-> 0]
    /\ next_session = 1
    /\ wlast = [w \in Workers |-> NoOp]
    /\ app_env = Application_env
    /\ app_methods = Server_methods
    /\ absorbed = [w \in Workers |-> RsStoreWorker_new_env]
    /\ wconn = [w \in Workers |-> NoConnection]
    /\ pc = "loop"
    /\ shutdown = FALSE
    /\ sc_status_before_login \in BOOLEAN
    /\ client_requests = MaxRecv
    /\ account = None
    /\ authtoken = None
    /\ sip_req = None
    /\ sip_resp = None
    /\ sent = <<>>
    /\ nrecv = 0
    /\ connected = TRUE
    /\ exit_res = None
    /\ slast = NoRequest
    /\ lookups = [u \in IlsUsernames |-> 0]
    /\ idl = None
    /\ store_METHODS = {}
    /\ registered = <<>>
    /\ pub_calls = 0
    /\ pub_invoked = 0
    /\ pub_last = NoCall
    /\ pub_state = "listening"

\* The same state, with a client that sends up to MaxLiveRecv requests.
LiveInit ==
    /\ wstate = [w \in Workers |-> "new"]
    /\ database = [w \in Workers |-> RsStoreWorker_new]
    /\ wsession = [w \in Workers |-> 0]
    /\ xact_session = [w \in Workers |-> 0]
    /\ next_session = 1
    /\ wlast = [w \in Workers |-> NoOp]
    /\ app_env = Application_env
    /\ app_methods = Server_methods
    /\ absorbed = [w \in Workers |-> RsStoreWorker_new_env]
    /\ wconn = [w \in Workers |-> NoConnection]
    /\ pc = "loop"
    /\ shutdown = FALSE
    /\ sc_status_before_login \in BOOLEAN
    /\ client_requests = MaxLiveRecv
    /\ account = None
    /\ authtoken = None
    /\ sip_req = None
    /\ sip_resp = None
    /\ sent = <<>>
    /\ nrecv = 0
    /\ connected = TRUE
    /\ exit_res = None
    /\ slast = NoRequest
    /\ lookups = [u \in IlsUsernames |-> 0]
    /\ idl = None
    /\ store_METHODS = {}
    /\ registered = <<>>
    /\ pub_calls = 0
    /\ pub_invoked = 0
    /\ pub_last = NoCall
    /\ pub_state = "listening"

\* The same state, with a client that sends up to MaxLongRecv requests.
LongInit ==
    /\ wstate = [w \in Workers |-> "new"]
    /\ database = [w \in Workers |-> RsStoreWorker_new]
    /\ wsession = [w \in Workers |-> 0]
    /\ xact_session = [w \in Workers |-> 0]
    /\ next_session = 1
    /\ wlast = [w \in Workers |-> NoOp]
    /\ app_env = Application_env
    /\ app_methods = Server_methods
    /\ absorbed = [w \in Workers |-> RsStoreWorker_new_env]
    /\ wconn = [w \in Workers |-> NoConnection]
    /\ pc = "loop"
    /\ shutdown = FALSE
    /\ sc_status_before_login \in BOOLEAN
    /\ client_requests = MaxLongRecv
    /\ account = None
    /\ authtoken = None
    /\ sip_req = None
    /\ sip_resp = None
    /\ sent = <<>>
    /\ nrecv = 0
    /\ connected = TRUE
    /\ exit_res = None
    /\ slast = NoRequest
    /\ lookups = [u \in IlsUsernames |-> 0]
    /\ idl = None
    /\ store_METHODS = {}
    /\ registered = <<>>
    /\ pub_calls = 0
    /\ pub_invoked = 0
    /\ pub_last = NoCall
    /\ pub_state = "listening"

\* The store worker pool, with the gateway session left as constructed.
StoreSpec == Init /\ [][StoreNext]_vars

\* The gateway session, with the worker pool left as constructed.
SipSpec == Init /\ [][SipNext]_vars

\* The gateway session with a client that sends up to MaxLongRecv requests.
SipLongSpec == LongInit /\ [][SipNext]_vars

\* The startup of the store service.
RegSpec == Init /\ [][RegNext]_vars

\* The dispatch loop of one worker of the public service.
PubSpec == Init /\ [][PubNext]_vars

\* The gateway session as its thread runs it: the thread keeps taking its
\* own steps, and a receive that neither gets a request nor fails returns
\* after SIP_RECV_TIMEOUT seconds. Nothing is assumed of the client or of
\* the server setting the flag.
SipLiveSpec ==
    /\ LiveInit
    /\ [][SipNext]_vars
    /\ WF_vars(CheckShutdown \/ HandleRequest \/ SendResponse \/ SendFailed
                 \/ Disconnect)
    /\ WF_vars(RecvTimeout)

\* ------------------------------------------------------------------------
\* Properties of the store worker pool (checked under StoreSpec)
\* ------------------------------------------------------------------------

\* C1: when a session that left a transaction open ends, by end_session
\* (explicit end, disconnect or error) or by keepalive_timeout, the worker's
\* connection has no open transaction once the hook has returned.
C1_NoXactAfterSessionEnd ==
    \A w \in Workers :
        (wlast[w].op \in SessionEndHooks /\ wlast[w].pre_xact) => ~has_xact(w)

\* A keepalive timeout has ended a session whose transaction was open.
C1_Witness ==
    \E w \in Workers :
        /\ wlast[w].op = "keepalive_timeout"
        /\ wlast[w].pre_xact
        /\ wstate[w] = "idle"

\* C2: an idle worker has no open transaction, and a transaction open on a
\* serving worker was begun by the session it is serving, never by an
\* earlier one.
C2_NoXactFromEarlierSession ==
    \A w \in Workers :
        /\ wstate[w] = "idle" => ~has_xact(w)
        /\ (wstate[w] = "serving" /\ has_xact(w)) => xact_session[w] = wsession[w]

\* A worker starts serving a new session right after a session of its own
\* that ended with a transaction open.
C2_Witness ==
    \E w \in Workers :
        /\ wstate[w] = "serving"
        /\ wlast[w].op = "start_session"
        /\ wlast[w].prev_xact

\* C3: transaction.begin on a connection that already has an open
\* transaction fails.
C3_BeginTwiceFails ==
    \A w \in Workers :
        (/\ wlast[w].op = "api_call"
         /\ wlast[w].api = "transaction.begin"
         /\ wlast[w].pre_xact) => wlast[w].res = "Err"

\* transaction.begin was called with a transaction open.
C3_Witness ==
    \E w \in Workers :
        /\ wlast[w].op = "api_call"
        /\ wlast[w].api = "transaction.begin"
        /\ wlast[w].pre_xact

\* C4: transaction.commit or transaction.rollback on a connection with no
\* open transaction fails, and the connection has none afterwards.
C4_CommitRollbackNeedXact ==
    \A w \in Workers :
        (/\ wlast[w].op = "api_call"
         /\ wlast[w].api \in {"transaction.commit", "transaction.rollback"}
         /\ ~wlast[w].pre_xact) => (wlast[w].res = "Err" /\ ~has_xact(w))

\* Both a commit and a rollback were called with no transaction open.
C4_Witness ==
    /\ \E w \in Workers :
        /\ wlast[w].op = "api_call"
        /\ wlast[w].api = "transaction.rollback"
        /\ ~wlast[w].pre_xact
    /\ \E w \in Workers :
        /\ wlast[w].op = "api_call"
        /\ wlast[w].api = "transaction.commit"
        /\ ~wlast[w].pre_xact

\* ------------------------------------------------------------------------
\* Properties of the gateway session (checked under SipSpec)
\* ------------------------------------------------------------------------

\* The request handle_sip_request processed last.
LastMsg == unwrap(slast.msg)

\* handle_sip_request has just processed a request of this code: start is
\* about to send the response, or has returned the handler's error.
JustHandled(code) ==
    /\ slast.code = code
    /\ slast.n = nrecv
    /\ \/ pc = "send"
       \/ pc = "exited" /\ unwrap(exit_res).err \notin {"none", "recv", "send"}

\* C5 (as claimed): when an unauthenticated session handles a request whose
\* code is neither 99 nor 93, no handler runs, there is a failure reply to
\* send and the connection stays open.
C5_NotLoggedInIsAnswered ==
    [][(/\ pc = "handle"
        /\ pc' # "handle"
        /\ is_none(account)
        /\ unwrap(sip_req).code \notin {"99", "93"})
       => (/\ slast'.handler = "none"
           /\ pc' = "send"
           /\ is_some(sip_resp')
           /\ connected')]_vars

\* C6 (as claimed): when a request is handled whose code is not one of the
\* eight dispatched codes, there is an "unsupported request" reply to send
\* and the connection stays open.
C6_UnsupportedIsAnswered ==
    [][(/\ pc = "handle"
        /\ pc' # "handle"
        /\ unwrap(sip_req).code \notin
               {"99", "93", "09", "11", "17", "23", "37", "63"})
       => (/\ pc' = "send"
           /\ is_some(sip_resp')
           /\ connected')]_vars

\* The login request names a configured account and carries its password.
CredentialsMatch(msg) ==
    /\ is_some(msg.CN)
    /\ is_some(msg.CO)
    /\ \E a \in SipAccounts :
         a.sip_username = unwrap(msg.CN) /\ a.sip_password = unwrap(msg.CO)

\* C7: after a login request that fails (unknown username, wrong secret, a
\* missing field) the session has no account, the result is Ok with a login
\* response whose ok flag is 0, and start goes on to send it.
C7_FailedLoginIsNack ==
    (JustHandled("93") /\ ~CredentialsMatch(LastMsg))
    => (/\ is_none(account)
        /\ slast.res = "Ok"
        /\ pc = "send"
        /\ sip_resp = Some(Response("94", "0", None, None))
        /\ connected
        /\ is_none(exit_res))

\* A login fails on a session that was logged in: one failure of each kind.
C7_Witness ==
    /\ JustHandled("93")
    /\ is_some(slast.pre_account)
    /\ is_none(account)
    /\ \/ LastMsg.CN = Some("nobody")
       \/ (LastMsg.CN = Some("lib1") /\ LastMsg.CO = Some("pw2"))
       \/ is_none(LastMsg.CO)

\* C8: a login request is acknowledged and binds an account exactly when
\* both fields are present and name a configured account with its secret;
\* the account bound is then the configured one of that username.
C8_LoginSucceedsIffCredentialsMatch ==
    JustHandled("93")
    => (/\ is_some(account) <=> CredentialsMatch(LastMsg)
        /\ unwrap(sip_resp).ok = "1" <=> CredentialsMatch(LastMsg)
        /\ is_some(account) =>
             (/\ unwrap(account) \in SipAccounts
              /\ unwrap(account).sip_username = unwrap(LastMsg.CN)))

\* A login as lib2 succeeded on a session logged in as lib1.
C8_Witness ==
    /\ JustHandled("93")
    /\ is_some(slast.pre_account)
    /\ unwrap(slast.pre_account).sip_username = "lib1"
    /\ is_some(account)
    /\ unwrap(account).sip_username = "lib2"
    /\ unwrap(sip_resp).ok = "1"

\* The handler the protocol assigns to each gated request code.
C9_HandlerOf(code) ==
    CASE code = "09" -> "handle_checkin"
      [] code = "11" -> "handle_checkout"
      [] code = "17" -> "handle_item_info"
      [] code = "23" -> "handle_patron_status"
      [] code = "37" -> "handle_payment"
      [] code = "63" -> "handle_patron_info"

\* C9: on a session that holds an account (a login succeeded and none has
\* failed since) a request with one of the six gated codes is handled by
\* the handler of that code and is never refused as not logged in.
C9_GatedRoutedWhenLoggedIn ==
    (slast.code \in {"09", "11", "17", "23", "37", "63"}
        /\ is_some(slast.pre_account))
    => (/\ slast.handler = C9_HandlerOf(slast.code)
        /\ slast.err # "not_logged_in")

\* A checkin and then a checkout were handled on a logged-in session.
C9_Witness ==
    /\ JustHandled("11")
    /\ is_some(slast.pre_account)
    /\ slast.res = "Ok"
    /\ slast.handler = "handle_checkout"
    /\ Len(sent) = 2
    /\ sent[2].code = "10"

\* C10: a status request handled with no account on a deployment that
\* disables status before login is an error; no response is built for it
\* and none is sent: the session ends with this request unanswered.
C10_StatusBeforeLoginDisabled ==
    (slast.code = "99" /\ is_none(slast.pre_account) /\ ~sc_status_before_login)
    => (/\ slast.res = "Err"
        /\ slast.err = "status_disabled"
        /\ is_none(sip_resp)
        /\ Len(sent) < nrecv
        /\ pc = "exited")

\* A status request before login was refused after an earlier failed login.
C10_Witness ==
    /\ slast.code = "99"
    /\ is_none(slast.pre_account)
    /\ ~sc_status_before_login
    /\ slast.err = "status_disabled"
    /\ Len(sent) = 1

\* The sixteen capability flags in the order the protocol documents:
\* patron status, checkout, checkin, block patron, acs status, request
\* resend, login, patron information, end patron session, fee paid, item
\* information, item status update, patron enable, hold, renew, renew all.
C11_Capabilities ==
    <<"Y", "Y", "Y", "N", "Y", "N", "Y", "Y", "N", "Y", "Y", "N", "N", "N", "Y", "N">>

\* The ACS status responses built before login: the one about to be sent
\* and those sent, told by their missing AO field.
C11_StatusBeforeLogin ==
    {sent[i] : i \in {j \in DOMAIN sent : sent[j].code = "98" /\ is_none(sent[j].AO)}}
    \cup (IF is_some(sip_resp) /\ unwrap(sip_resp).code = "98"
             /\ is_none(unwrap(sip_resp).AO)
          THEN {unwrap(sip_resp)} ELSE {})

\* C11: on a deployment that allows status before login, a status request
\* handled with no account is answered, and every status response built
\* before login carries the same capability string: the sixteen flags
\* above, whatever the session has done before.
C11_SameCapabilitiesBeforeLogin ==
    sc_status_before_login
    => (/\ \A r \in C11_StatusBeforeLogin :
              /\ r.BX = Some(C11_Capabilities)
              /\ Len(unwrap(r.BX)) = 16
              /\ \A k \in 1..16 : unwrap(r.BX)[k] \in {"Y", "N"}
        /\ \A r1, r2 \in C11_StatusBeforeLogin : r1.BX = r2.BX
        /\ (JustHandled("99") /\ is_none(slast.pre_account))
             => (slast.res = "Ok" /\ unwrap(sip_resp) \in C11_StatusBeforeLogin))

\* Status was asked three times before login: two responses are sent and
\* the third is about to be.
C11_Witness ==
    /\ sc_status_before_login
    /\ Len(sent) = 2
    /\ sent[1].code = "98" /\ is_none(sent[1].AO)
    /\ sent[2].code = "98" /\ is_none(sent[2].AO)
    /\ JustHandled("99")
    /\ is_none(slast.pre_account)

\* C17: the session leaves its loop for shutdown only from the top of the
\* loop with the flag set, and then no exchange is half done: every request
\* received has had its reply sent and none is held; the Ok return of start
\* is reached only through the disconnect after the loop.
C17_ShutdownBetweenMessages ==
    /\ []((pc = "disconnect" \/ (pc = "exited" /\ unwrap(exit_res).res = "Ok"))
          => (/\ shutdown
              /\ is_none(sip_req)
              /\ is_none(sip_resp)
              /\ Len(sent) = nrecv
              /\ (pc = "exited" => ~connected)))
    /\ [][/\ (pc' = "disconnect" /\ pc # "disconnect") => (pc = "loop" /\ shutdown)
          /\ (pc' = "exited" /\ pc # "exited" /\ unwrap(exit_res').res = "Ok")
               => pc = "disconnect"]_vars

\* The flag was set while a request was in hand; the request was answered
\* and then the session left through the disconnect.
C17_Witness ==
    /\ pc = "exited"
    /\ unwrap(exit_res).res = "Ok"
    /\ nrecv >= 1
    /\ slast.n = nrecv
    /\ slast.shutdown
    /\ Len(sent) = nrecv

\* C19: the session goes between having an account and having none only by
\* handling a login request (93): to an account when the credentials match,
\* to none when they do not. No other request code changes it.
C19_OnlyLoginChangesAuth ==
    [][(is_some(account) # is_some(account'))
       => (/\ pc = "handle"
           /\ unwrap(sip_req).code = "93"
           /\ is_some(account') <=> CredentialsMatch(unwrap(sip_req)))]_vars

\* A logged-in session was served a gated request and then handled a login
\* that failed: it has no account.
C19_Witness ==
    /\ JustHandled("93")
    /\ is_some(slast.pre_account)
    /\ is_none(account)
    /\ Len(sent) = 2
    /\ sent[1].code = "94"
    /\ sent[2].code \in {"10", "12", "18", "24", "38", "64"}

\* C20: when a call has failed on a worker, the call's result is the
\* failure, no transaction is open on the worker's connection, and the
\* worker is still serving its session.
C20_FailedCallRollsBack ==
    \A w \in Workers :
        (wlast[w].op = "api_call" /\ wlast[w].res = "Err")
        => (~has_xact(w) /\ is_some(database[w]) /\ wstate[w] = "serving")

\* A direct method failed with a transaction open.
C20_Witness ==
    \E w \in Workers :
        /\ wlast[w].op = "api_call"
        /\ wlast[w].api = DirectApi
        /\ wlast[w].res = "Err"
        /\ wlast[w].pre_xact

\* C18: once the shutdown flag is set, the session eventually returns from
\* start, whether or not the client sends anything more.
C18_ShutdownTerminates == shutdown ~> (pc = "exited")

\* The client never sent a request; the flag was set and the session left
\* through the disconnect.
C18_Witness ==
    /\ shutdown
    /\ pc = "exited"
    /\ unwrap(exit_res).res = "Ok"
    /\ nrecv = 0
    /\ sent = <<>>

\* ------------------------------------------------------------------------
\* Properties of the startup of the store service (checked under RegSpec)
\* ------------------------------------------------------------------------

\* The mapper id of each class with '::' replaced by '.', written out.
C12_Dotted(classname) ==
    CASE classname = "au" -> <<"a", ".", "u">>
      [] classname = "aou" -> <<"a", ".", "o">>
      [] classname = "auv" -> <<"a", ".", "u">>
      [] classname = "rs" -> <<"r", ".", "s">>
      [] classname = "mvr" -> <<"m", ".", "v">>

\* The entries of a method list made for a class.
C12_MadeFor(methods, c) ==
    {i \in DOMAIN methods : methods[i].class = c.classname}

\* C12: in every list register_methods returns, a class that is tagged
\* for the service and declares a mapper id has entries, and the entries
\* made for any one class are exactly five: for each of create, retrieve,
\* search, update and delete one entry named
\* open-ils.rs-store.direct.<dotted mapper id>.<operation>.
C12_FiveMethodsPerClass ==
    \A k \in DOMAIN registered :
        registered[k].res = "Ok" =>
        \A c \in unwrap(idl) :
            LET methods == registered[k].methods
                mine == C12_MadeFor(methods, c)
            IN  /\ (/\ is_some(c.controller)
                    /\ contains(unwrap(c.controller), "open-ils.rs-store")
                    /\ is_some(c.fieldmapper)) => mine # {}
                /\ mine # {} =>
                     /\ Cardinality(mine) = 5
                     /\ \A op \in {"create", "retrieve", "search", "update",
                                   "delete"} :
                          Cardinality({i \in mine : methods[i].name =
                              <<"open-ils.rs-store", ".", "direct", ".">>
                              \o C12_Dotted(c.classname) \o <<".", op>>}) = 1

\* A list was returned for an IDL that holds a class tagged for the service
\* with a mapper id, next to a class without a controller.
C12_Witness ==
    /\ Len(registered) >= 1
    /\ registered[1].res = "Ok"
    /\ \E c \in unwrap(idl) : c.classname = "aou"
    /\ \E c \in unwrap(idl) : c.classname = "mvr"
    /\ \E i \in DOMAIN registered[1].methods :
          registered[1].methods[i].class = "aou"

\* C13 (as claimed): no list register_methods returns holds two entries
\* of the same name.
C13_NamesUnique ==
    \A k \in DOMAIN registered :
        registered[k].res = "Ok" =>
        \A i, j \in DOMAIN registered[k].methods :
            i # j => registered[k].methods[i].name # registered[k].methods[j].name

\* The names of the entries of the k-th list.
NameSet(k) ==
    {registered[k].methods[i].name : i \in DOMAIN registered[k].methods}

\* C14: the runs of register_methods on one IDL end alike and give the same
\* set of method names, whatever the order the classes came in.
C14_SameNamesEveryRun ==
    \A k, l \in DOMAIN registered :
        /\ registered[k].res = registered[l].res
        /\ NameSet(k) = NameSet(l)

\* Two runs met the classes in different orders: their lists differ.
C14_Witness ==
    /\ Len(registered) = 2
    /\ registered[1].res = "Ok"
    /\ registered[1].methods # registered[2].methods
    /\ \E c \in unwrap(idl) : c.classname = "cbc"

\* C15: when one of the five stubs is missing from METHODS, register_methods
\* panics and not one method has been added by then.
C15_MissingStubAborts ==
    \A k \in DOMAIN registered :
        (\E stub \in {"create-stub", "retrieve-stub", "search-stub",
                      "update-stub", "delete-stub"} : stub \notin store_METHODS)
        => (registered[k].res = "panic" /\ registered[k].methods = <<>>)

\* The stub looked up last is missing and the IDL holds classes to publish.
C15_Witness ==
    /\ Len(registered) = 1
    /\ "delete-stub" \notin store_METHODS
    /\ \E c \in unwrap(idl) : c.classname = "aou"
    /\ \E c \in unwrap(idl) : c.classname = "au"

\* ------------------------------------------------------------------------
\* Properties of the dispatch of the public service (checked under PubSpec)
\* ------------------------------------------------------------------------

\* The declared parameter counts, written out.
C16_Arity(api, count) ==
    \/ api = "get_barcodes" /\ count = 4
    \/ api = "user_has_work_perm_at.batch" /\ 2 <= count /\ count <= 3
    \/ api = "ou_setting.ancestor_default.batch" /\ 2 <= count /\ count <= 3
    \/ api = "user.opac.vital_stats" /\ 1 <= count /\ count <= 2

\* C16: when a call is dispatched, its handler is invoked only if the
\* number of parameters satisfies the method's declared count; otherwise
\* the call is rejected, no handler runs and the worker goes on listening.
C16_ArityChecked ==
    [][(pub_calls' = pub_calls + 1)
       => (/\ pub_last'.invoked => C16_Arity(pub_last'.api, pub_last'.nargs)
           /\ ~C16_Arity(pub_last'.api, pub_last'.nargs)
                => (/\ pub_last'.res \in {"bad_param_count", "no_such_method"}
                    /\ pub_invoked' = pub_invoked
                    /\ pub_state' = "listening"))]_vars

\* A call with a wrong number of parameters was rejected; the call
\* after it was served.
C16_Witness ==
    /\ pub_last.prev = "bad_param_count"
    /\ pub_last.invoked
    /\ pub_last.res = "Ok"
    /\ pub_calls = 2
    /\ pub_invoked = 1

\* ------------------------------------------------------------------------
\* Properties of the bridge token of the gateway session
\* ------------------------------------------------------------------------

\* C21: a handler of a gated request calls set_authtoken.  The call probes
\* the token exactly when there is one, and calls login exactly when there
\* is none or the probe says it is stale; when it returns Ok the session
\* holds a token, and when it returns Err so does the handler.
C21_LazyBridgeLogin ==
    /\ (slast.code \in {"09", "11", "17", "23", "37", "63"}
        /\ slast.handler # "none") => slast.trace.called
    /\ slast.trace.called =>
        /\ slast.trace.probe # "none" <=> is_some(slast.pre_authtoken)
        /\ slast.trace.login <=> (\/ is_none(slast.pre_authtoken)
                                  \/ slast.trace.probe = "false")
        /\ slast.trace.res = "Ok" => is_some(authtoken)
        /\ slast.trace.res = "Err" => slast.res = "Err"
        /\ slast.trace.res \in {"Ok", "Err"}

\* The probe found the token stale and the login that followed succeeded.
C21_Witness ==
    /\ slast.trace.called
    /\ is_some(slast.pre_authtoken)
    /\ slast.trace.probe = "false"
    /\ slast.trace.login
    /\ slast.trace.res = "Ok"
    /\ is_some(authtoken)

\* C22 (as claimed): within one session the user of an ILS username is
\* searched for at most once.
C22_LookupAtMostOnce == \A u \in IlsUsernames : lookups[u] <= 1

\* C28 (as claimed): when set_authtoken has accepted or set a token, the
\* token is the one of the ILS user the session's account maps to.
C28_TokenOfCurrentAccount ==
    (slast.trace.called /\ slast.trace.res = "Ok")
    => (/\ is_some(account)
        /\ is_some(authtoken)
        /\ unwrap(authtoken).user = IlsUserId(unwrap(account).ils_username))

\* ------------------------------------------------------------------------
\* Properties of the dispatch of the gateway session
\* ------------------------------------------------------------------------

\* The position in the capability string of the request of each code, by
\* the order of appearance the protocol gives.
C29_Position(code) ==
    CASE code = "23" -> 1
      [] code = "11" -> 2
      [] code = "09" -> 3
      [] code = "01" -> 4
      [] code = "99" -> 5
      [] code = "93" -> 7
      [] code = "63" -> 8
      [] code = "35" -> 9
      [] code = "37" -> 10
      [] code = "17" -> 11
      [] code = "29" -> 15

\* C29 (as claimed): a request handled by a logged-in session is answered
\* as unsupported exactly when its position in the capability string is
\* flagged N.
C29_AdvertisedIsHandled ==
    (slast.n >= 1 /\ is_some(slast.pre_account))
    => (INSTITUTION_SUPPORTS[C29_Position(slast.code)] = "Y"
        <=> slast.err # "unsupported")

\* C30: a request handled with no account whose code is not one of the
\* eight dispatched ones fails as "not logged in", and a request fails as
\* "unsupported" only when the session had an account.
C30_GatingBeforeValidation ==
    slast.n >= 1 =>
        /\ (/\ is_none(slast.pre_account)
            /\ slast.code \notin {"99", "93", "09", "11", "17", "23", "37", "63"})
           => (slast.res = "Err" /\ slast.err = "not_logged_in")
        /\ slast.err = "unsupported" => is_some(slast.pre_account)

\* After a login that failed, a request of a code without a handler was
\* refused as not logged in.
C30_Witness ==
    /\ JustHandled("35")
    /\ slast.n = 2
    /\ is_none(slast.pre_account)
    /\ slast.err = "not_logged_in"
    /\ Len(sent) = 1
    /\ sent[1].code = "94"

\* ------------------------------------------------------------------------
\* Properties of the published method list (checked under RegSpec)
\* ------------------------------------------------------------------------

\* C23 (as claimed): in every list register_methods returns, a class that
\* methods were made for is tagged for open-ils.rs-store and declares a
\* mapper id.
C23_OnlyOwnClasses ==
    \A k \in DOMAIN registered :
        registered[k].res = "Ok" =>
        \A c \in unwrap(idl) :
            C12_MadeFor(registered[k].methods, c) # {} =>
                /\ is_some(c.controller)
                /\ contains(unwrap(c.controller), "open-ils.rs-store")
                /\ is_some(c.fieldmapper)

\* The classes of the IDL that methods are made for: those with a mapper
\* id whose controller names open-ils.cstore or open-ils.rs-store.
C24_Qualifying ==
    {c \in unwrap(idl) :
        /\ c.fieldmapper # None
        /\ c.controller # None
        /\ \E i \in DOMAIN unwrap(c.controller) :
              unwrap(c.controller)[i] \in {"open-ils.cstore", "open-ils.rs-store"}}

\* The last piece of a method name.
C24_LastPiece(name) == name[Len(name)]

\* C24: a list register_methods returns for K qualifying classes has
\* 5*K + 3 entries: 5*K made for classes, and transaction.begin,
\* transaction.rollback and transaction.commit once each; no entry bears
\* the name of a stub.
C24_PublishedSurface ==
    \A k \in DOMAIN registered :
        registered[k].res = "Ok" =>
        LET methods == registered[k].methods
            K == Cardinality(C24_Qualifying)
        IN  /\ Len(methods) = 5 * K + 3
            /\ Cardinality({i \in DOMAIN methods : methods[i].class # "none"})
                 = 5 * K
            /\ \A x \in {"transaction.begin", "transaction.rollback",
                         "transaction.commit"} :
                  Cardinality({i \in DOMAIN methods :
                                 /\ methods[i].class = "none"
                                 /\ C24_LastPiece(methods[i].name) = x}) = 1
            /\ \A i \in DOMAIN methods :
                  \A j \in DOMAIN methods[i].name :
                     methods[i].name[j] \notin
                        {"create-stub", "retrieve-stub", "search-stub",
                         "update-stub", "delete-stub"}

\* A list of thirteen entries was returned for an IDL of two qualifying
\* classes and one without a mapper id.
C24_Witness ==
    /\ Len(registered) >= 1
    /\ registered[1].res = "Ok"
    /\ Cardinality(C24_Qualifying) = 2
    /\ Cardinality(unwrap(idl)) = 3
    /\ Len(registered[1].methods) = 13

\* ------------------------------------------------------------------------
\* Properties of the store workers' connection and shared data (checked
\* under StoreSpec)
\* ------------------------------------------------------------------------

\* C25: a worker in its listen state (idle or serving) holds a connection,
\* the one its own worker_start built in its own thread and connected,
\* which no other worker holds; a worker whose connect failed is not
\* listening and holds no connection.
C25_OwnConnection ==
    \A w \in Workers :
        /\ wstate[w] \in {"idle", "serving"} =>
              /\ is_some(database[w])
              /\ wconn[w].connect = "ok"
              /\ wconn[w].thread = thread_id(w)
              /\ \A v \in Workers \ {w} : wconn[v].thread # wconn[w].thread
        /\ wconn[w].connect = "failed" =>
              /\ wstate[w] = "failed"
              /\ wlast[w].op = "worker_start" /\ wlast[w].res = "Err"
              /\ is_none(database[w])
              /\ wconn[w].thread = 0
        /\ is_some(database[w]) <=> wconn[w].thread # 0

\* One worker's connect failed while the other worker is serving a session
\* with a transaction open on its own connection.
C25_Witness ==
    \E w, v \in Workers :
        /\ wconn[w].connect = "failed" /\ wstate[w] = "failed"
        /\ wstate[v] = "serving" /\ has_xact(v)
        /\ wconn[v].thread = thread_id(v)

\* C26 (as claimed): a worker that worker_end has ended holds no open
\* connection and no open transaction.
C26_ClosedAfterWorkerEnd ==
    \A w \in Workers :
        wstate[w] = "ended" => (is_none(database[w]) /\ ~has_xact(w))

\* C27: the shared environment and the shared registry stay what they were
\* when the workers were created, whatever the workers do, and every worker
\* that absorbed them holds the same IDL reference and the same registry.
C27_SharedFrozen ==
    /\ app_env = Application_env
    /\ app_methods = Server_methods
    /\ \A w \in Workers :
          /\ is_some(absorbed[w].env) <=> is_some(absorbed[w].methods)
          /\ is_some(absorbed[w].env) =>
                /\ unwrap(absorbed[w].env).idl = app_env.idl
                /\ unwrap(absorbed[w].methods) = app_methods
          /\ wstate[w] \notin {"new"} => is_some(absorbed[w].env)

\* One worker has ended after serving, while the other, which absorbed the
\* same environment, has just had a call fail in its session.
C27_Witness ==
    \E w, v \in Workers :
        /\ wstate[w] = "ended" /\ wlast[w].op = "worker_end"
        /\ wstate[v] = "serving"
        /\ wlast[v].op = "api_call" /\ wlast[v].res = "Err"
        /\ is_some(absorbed[w].env) /\ is_some(absorbed[v].env)
        /\ absorbed[w] = absorbed[v]

\* C31: a call that failed with a transaction open leaves the connection
\* with no transaction, and a transaction.commit that follows it in the
\* same session finds no transaction, fails and commits nothing.
C31_FailureEndsTransaction ==
    \A w \in Workers :
        /\ (wlast[w].op = "api_call" /\ wlast[w].res = "Err" /\ wlast[w].pre_xact)
              => ~has_xact(w)
        /\ (wlast[w].op = "api_call" /\ wlast[w].after_failure) =>
              /\ wlast[w].api = "transaction.commit"
              /\ ~wlast[w].pre_xact
              /\ wlast[w].res = "Err"
              /\ ~has_xact(w)
              /\ wstate[w] = "serving"

\* A transaction.commit has failed right after a call that failed with a
\* transaction open, in the session that began the transaction.
C31_Witness ==
    \E w \in Workers :
        /\ wlast[w].op = "api_call"
        /\ wlast[w].api = "transaction.commit"
        /\ wlast[w].after_failure
        /\ wlast[w].res = "Err"
        /\ wstate[w] = "serving"
        /\ ~has_xact(w)

====
